---- MODULE Spec2Model ----
(***************************************************************************)
(* A model of yek's serialize_repo (src/src/lib.rs): the walk that         *)
(* collects (path, content, priority) entries, the priority engine         *)
(* (get_file_priority and compute_recentness_boost), the sort, and the     *)
(* chunk writer write_chunks with its forced-split loop.                   *)
(*                                                                         *)
(* Paths and contents are sequences of bytes (naturals below 256). File    *)
(* names of written chunks are strings. An Option is a sequence of length  *)
(* at most one: <<>> is None and <<v>> is Some(v).                         *)
(***************************************************************************)
EXTENDS Integers, Sequences, FiniteSets, TLC

----------------------------------------------------------------------------
(* Bounds of the model *)

\* the largest number of files a repository tree holds
MaxFiles == 3

----------------------------------------------------------------------------
(* Bytes and strings *)

Min(a, b) == IF a <= b THEN a ELSE b

\* a.0.cmp(&b.0): the byte-wise lexicographic order of two strings
RECURSIVE BytesLess(_, _)
BytesLess(a, b) ==
    IF b = <<>> THEN FALSE
    ELSE IF a = <<>> THEN TRUE
    ELSE IF Head(a) # Head(b) THEN Head(a) < Head(b)
    ELSE BytesLess(Tail(a), Tail(b))

IsPrefix(p, s) == Len(p) <= Len(s) /\ SubSeq(s, 1, Len(p)) = p

IsSuffix(p, s) == Len(p) <= Len(s) /\ SubSeq(s, Len(s) - Len(p) + 1, Len(s)) = p

\* char::is_whitespace on the bytes the inputs hold: tab, newline, CR, space
IsWhitespace(b) == b \in {9, 10, 13, 32}

\* the UTF-8 encoding of U+FFFD REPLACEMENT CHARACTER
Replacement == <<239, 191, 189>>

IsLeadByte(b) == b >= 194 /\ b <= 223

IsContinuationByte(b) == b >= 128 /\ b <= 191

\* String::from_utf8_lossy on bytes that hold one- and two-byte characters:
\* a well-formed character is kept, every other byte becomes U+FFFD
RECURSIVE from_utf8_lossy(_)
from_utf8_lossy(s) ==
    IF s = <<>> THEN <<>>
    ELSE IF Head(s) < 128 THEN <<Head(s)>> \o from_utf8_lossy(Tail(s))
    ELSE IF IsLeadByte(Head(s)) /\ Len(s) >= 2 /\ IsContinuationByte(s[2])
         THEN <<s[1], s[2]>> \o from_utf8_lossy(SubSeq(s, 3, Len(s)))
    ELSE Replacement \o from_utf8_lossy(Tail(s))

\* str::split_whitespace: the maximal runs of non-whitespace bytes, in order
RECURSIVE SplitFrom(_, _)
SplitFrom(s, cur) ==
    IF s = <<>> THEN (IF cur = <<>> THEN <<>> ELSE <<cur>>)
    ELSE IF IsWhitespace(Head(s))
         THEN (IF cur = <<>> THEN <<>> ELSE <<cur>>) \o SplitFrom(Tail(s), <<>>)
    ELSE SplitFrom(Tail(s), Append(cur, Head(s)))

split_whitespace(s) == SplitFrom(s, <<>>)

\* [&str]::join(" ")
RECURSIVE JoinSpace(_)
JoinSpace(toks) ==
    IF toks = <<>> THEN <<>>
    ELSE IF Len(toks) = 1 THEN toks[1]
    ELSE toks[1] \o <<32>> \o JoinSpace(Tail(toks))

RECURSIVE Flatten(_)
Flatten(ss) == IF ss = <<>> THEN <<>> ELSE Head(ss) \o Flatten(Tail(ss))

----------------------------------------------------------------------------
(* The inputs: file trees, configurations, version-control histories *)

PathA   == <<97, 46, 116, 120, 116>>                            \* "a.txt"
PathB   == <<98, 46, 116, 120, 116>>                            \* "b.txt"
PathC   == <<99, 46, 116, 120, 116>>                            \* "c.txt"
PathE   == <<101>>                                              \* "e"
PathLib == <<115, 114, 99, 47, 108, 105, 98, 46, 114, 115>>     \* "src/lib.rs"

Hello   == <<104, 101, 108, 108, 111>>                          \* "hello"
World   == <<119, 111, 114, 108, 100, 33, 33>>                  \* "world!!"
\* "a \u{e9}  b": three tokens, a two-byte character, a double space
Accent  == <<97, 32, 195, 169, 32, 32, 98>>
\* 25 bytes, five tokens: "abcd abcd abcd abcd abcd\n"
Bytes25 == <<97, 98, 99, 100, 32, 97, 98, 99, 100, 32, 97, 98, 99, 100, 32,
             97, 98, 99, 100, 32, 97, 98, 99, 100, 10>>

\* the files a tree is drawn from: a path and the bytes on disk
FileUniverse ==
    { [path |-> PathA,   bytes |-> Hello],
      [path |-> PathB,   bytes |-> World],
      [path |-> PathC,   bytes |-> Bytes25],
      [path |-> PathE,   bytes |-> <<>>],
      [path |-> PathLib, bytes |-> Accent] }

Trees == { t \in SUBSET FileUniverse : Cardinality(t) <= MaxFiles }

\* the thresholds (config.max_size) a run is given
Thresholds == {1, 2, 3, 5, 20, 42}

\* A priority rule's pattern: the regexes the rules use are an anchored
\* literal prefix ("^src/"), a literal suffix (".*\.rs$"), the empty
\* pattern (""), which compiles and matches every path, and a pattern that
\* does not compile
RuleRs  == [pattern |-> [kind |-> "suffix", lit |-> <<46, 114, 115>>], score |-> 10]
RuleSrc == [pattern |-> [kind |-> "prefix", lit |-> <<115, 114, 99, 47>>], score |-> 5]
RuleB   == [pattern |-> [kind |-> "prefix", lit |-> <<98>>], score |-> 1]
RuleBad == [pattern |-> [kind |-> "invalid", lit |-> <<91>>], score |-> 7]

\* Regex::new(pattern).is_ok()
RegexCompiles(pattern) == pattern.kind # "invalid"

\* Regex::is_match
is_match(pattern, path) ==
    CASE pattern.kind = "prefix" -> IsPrefix(pattern.lit, path)
      [] pattern.kind = "suffix" -> IsSuffix(pattern.lit, path)
      [] pattern.kind = "empty"  -> TRUE
      [] OTHER -> FALSE

\* get_recent_commit_times: None, or Some(map from path to last commit time)
NoHistory == <<>>

\* three files committed oldest to newest: a.txt, b.txt, src/lib.rs
HistoryThree ==
    << [x \in {PathA, PathB, PathLib} |->
          IF x = PathA THEN 100 ELSE IF x = PathB THEN 200 ELSE 300] >>

\* two files changed by the same commit
HistoryTie == << [x \in {PathA, PathB} |-> 100] >>

HistoryOne == << [x \in {PathB} |-> 100] >>

\* the priority rules and history of a run, taken together
PriorityInputs ==
    { [rules |-> <<>>, history |-> h] :
        h \in {NoHistory, HistoryThree, HistoryTie, HistoryOne} }
    \cup
    { [rules |-> <<RuleRs, RuleSrc>>, history |-> NoHistory],
      [rules |-> <<RuleB>>, history |-> NoHistory],
      [rules |-> <<RuleSrc, RuleBad, RuleRs, RuleB>>, history |-> HistoryTie] }

\* every order in which the elements of a finite set can be listed
Orders(S) ==
    { s \in [1..Cardinality(S) -> S] : \A i, j \in DOMAIN s : i # j => s[i] # s[j] }

\* HashMap::iter over the history: some order of its keys, fixed for a map
IterOrders(history) ==
    IF history = <<>> THEN { <<>> } ELSE Orders(DOMAIN history[1])

----------------------------------------------------------------------------
(* The priority engine *)

\* the filter_map of get_file_priority: the scores of the rules whose
\* pattern compiles and matches, in rule order
RECURSIVE MatchingScores(_, _)
MatchingScores(path, rules) ==
    IF rules = <<>> THEN <<>>
    ELSE LET rule == Head(rules)
             rest == MatchingScores(path, Tail(rules))
         IN  IF RegexCompiles(rule.pattern) /\ is_match(rule.pattern, path)
             THEN <<rule.score>> \o rest
             ELSE rest

\* Iterator::max: None for an empty iterator
RECURSIVE IterMax(_)
IterMax(xs) ==
    IF xs = <<>> THEN <<>>
    ELSE LET m == IterMax(Tail(xs))
         IN  IF m = <<>> \/ m[1] < Head(xs) THEN <<Head(xs)>> ELSE m

\* a priority that is the score of the first matching rule
get_file_priority_first(path, rules) ==
    LET scores == MatchingScores(path, rules)
    IN  IF scores = <<>> THEN 0 ELSE scores[1]

get_file_priority(path, rules) ==
    LET m == IterMax(MatchingScores(path, rules))
    IN  IF m = <<>> THEN 0 ELSE m[1]

\* sorted.sort_by_key(|(_, t)| **t): a stable sort of (path, time) pairs,
\* here the insertion of the last element behind every element not newer
RECURSIVE SortByTime(_, _)
SortByTime(keys, times) ==
    IF keys = <<>> THEN <<>>
    ELSE LET n      == Len(keys)
             front  == SortByTime(SubSeq(keys, 1, n - 1), times)
             k      == keys[n]
             before == SelectSeq(front, LAMBDA x : times[x] <= times[k])
             after  == SelectSeq(front, LAMBDA x : times[x] > times[k])
         IN  before \o <<k>> \o after

\* a boost that is truncated, not rounded
TruncatedBoost(i, last_index, max_boost) == (i * max_boost) \div last_index

\* (i as f64 / last_index * max_boost as f64).round() as i32, for the
\* non-negative values the ranks give: halves round away from zero
RoundedBoost(i, last_index, max_boost) ==
    (2 * i * max_boost + last_index) \div (2 * last_index)

\* compute_recentness_boost: iter lists the keys of commit_times in the
\* map's iteration order; the result maps each key to its boost
compute_recentness_boost(iter, commit_times, max_boost) ==
    LET sorted     == SortByTime(iter, commit_times)
        last_index == IF Len(sorted) = 0 THEN 0 ELSE Len(sorted) - 1
        IndexOf(p) == CHOOSE i \in 1..Len(sorted) : sorted[i] = p
    IN  IF last_index < 1
        THEN [p \in DOMAIN commit_times |-> 0]
        ELSE [p \in DOMAIN commit_times |->
                RoundedBoost(IndexOf(p) - 1, last_index, max_boost)]

\* the max_boost serialize_repo passes
MaxBoost == 50

----------------------------------------------------------------------------
(* is_text_file *)

PathDat == <<120, 46, 100, 97, 116>>                            \* "x.dat"
PathPng == <<105, 46, 80, 78, 71>>                              \* "i.PNG"
PathSub == <<115, 117, 98>>                                     \* "sub"

Dot   == 46
Slash == 47

\* the index of the last element of s equal to b, 0 when there is none
LastIndexOf(s, b) ==
    LET at == { i \in 1..Len(s) : s[i] = b }
    IN  IF at = {} THEN 0 ELSE CHOOSE i \in at : \A j \in at : j <= i

\* Path::file_name: what follows the last separator
PathFileName(path) == SubSeq(path, LastIndexOf(path, Slash) + 1, Len(path))

\* Path::extension: what follows the last dot of the file name, None when
\* the name has no dot or only a leading one
Extension(path) ==
    LET name == PathFileName(path)
        dot  == LastIndexOf(name, Dot)
    IN  IF dot <= 1 THEN <<>> ELSE << SubSeq(name, dot + 1, Len(name)) >>

\* str::to_lowercase, on ASCII letters
ToLowercase(s) ==
    [i \in 1..Len(s) |-> IF s[i] >= 65 /\ s[i] <= 90 THEN s[i] + 32 ELSE s[i]]

\* str::trim_start_matches('.')
RECURSIVE TrimStartDots(_)
TrimStartDots(s) ==
    IF s # <<>> /\ Head(s) = Dot THEN TrimStartDots(Tail(s)) ELSE s

\* defaults::BINARY_FILE_EXTENSIONS, of which "png" and "exe" are members
BINARY_FILE_EXTENSIONS == { <<112, 110, 103>>, <<101, 120, 101>> }

\* the fast path of is_text_file: the lower-cased extension is in the
\* built-in set or equals a user entry with its leading dots trimmed
HasBinaryExtension(path, user_binary_extensions) ==
    LET ext == Extension(path)
    IN  /\ ext # <<>>
        /\ LET ext_lc == ToLowercase(ext[1])
           IN  \/ ext_lc \in BINARY_FILE_EXTENSIONS
               \/ \E i \in 1..Len(user_binary_extensions) :
                     TrimStartDots(user_binary_extensions[i]) = ext_lc

\* the bytes is_text_file reads of a file
ProbeLen == 512

\* is_text_file: result is "text" for Ok(true), "binary" for Ok(false) and
\* "err" for Err(..); opened tells whether File::open was called
is_text_file(path, bytes, readable, user_binary_extensions) ==
    IF HasBinaryExtension(path, user_binary_extensions)
    THEN [result |-> "binary", opened |-> FALSE]
    ELSE IF ~readable
         THEN [result |-> "err", opened |-> TRUE]
    ELSE LET n == Min(ProbeLen, Len(bytes))
         IN  [result |-> IF \E i \in 1..n : bytes[i] = 0 THEN "binary" ELSE "text",
              opened |-> TRUE]

----------------------------------------------------------------------------
(* validate_config *)

\* the diagnostics of validate_config for the priority rules: for each rule
\* in turn, its score, its empty pattern, its pattern that does not compile
RECURSIVE RuleErrors(_, _)
RuleErrors(rules, i) ==
    IF i > Len(rules) THEN <<>>
    ELSE LET rule == rules[i]
             err(kind) == [field |-> "priority_rules", index |-> i, kind |-> kind]
         IN  (IF rule.score < 0 \/ rule.score > 1000 THEN <<err("score")>> ELSE <<>>)
             \o (IF rule.pattern.kind = "empty" THEN <<err("empty")>> ELSE <<>>)
             \o (IF ~RegexCompiles(rule.pattern) THEN <<err("regex")>> ELSE <<>>)
             \o RuleErrors(rules, i + 1)

\* the diagnostics for the ignore patterns: those that do not compile
RECURSIVE IgnoreErrors(_, _)
IgnoreErrors(patterns, i) ==
    IF i > Len(patterns) THEN <<>>
    ELSE (IF ~RegexCompiles(patterns[i])
          THEN <<[field |-> "ignore_patterns", index |-> i, kind |-> "regex"]>>
          ELSE <<>>)
         \o IgnoreErrors(patterns, i + 1)

\* validate_config's errors, in the order pushed; the directory it creates
\* for output_dir is part of the action Validate
validate_config(cfg, ignore_patterns) ==
    RuleErrors(cfg.priority_rules, 1)
    \o IgnoreErrors(ignore_patterns, 1)
    \o (IF cfg.max_size = 0
        THEN <<[field |-> "max_size", index |-> 0, kind |-> "zero"]>>
        ELSE <<>>)

----------------------------------------------------------------------------
(* The inputs of the runs that meet diagnostics, faults and streaming *)

\* env of a run with nothing but the three fields of config set, over a
\* tree every entry of which can be read:
\*   stream, output_dir, ignore_patterns, binary_extensions: the YekConfig
\*   gitignore: "none", or "malformed" for a .gitignore holding "["
\*   unreadable: the paths of the files that cannot be opened
\*   walk_errors: the paths of the directories that cannot be listed
\*   second: what the second run is, the "same" run or the "streaming" one
PlainEnv ==
    [stream |-> FALSE, output_dir |-> <<>>, ignore_patterns |-> <<>>,
     binary_extensions |-> <<>>, gitignore |-> "none", unreadable |-> {},
     walk_errors |-> {}, second |-> "same"]

\* text under an extension a user may list, and a picture
TextDat == <<104, 105>>                                         \* "hi"
Picture == <<137, 80, 0, 71>>

EnvUniverse ==
    { [path |-> PathA,   bytes |-> Hello],
      [path |-> PathB,   bytes |-> World],
      [path |-> PathE,   bytes |-> <<>>],
      [path |-> PathLib, bytes |-> Accent],
      [path |-> PathDat, bytes |-> TextDat],
      [path |-> PathPng, bytes |-> Picture] }

EnvTrees == { t \in SUBSET EnvUniverse : Cardinality(t) <= MaxFiles }

\* everything a walk can yield
WalkUniverse ==
    FileUniverse \cup EnvUniverse \cup { [path |-> PathSub, bytes |-> <<>>] }

\* rules validate_config has a diagnostic for
RuleHuge  == [pattern |-> [kind |-> "prefix", lit |-> <<115, 114, 99, 47>>], score |-> 2000]
RuleBelow == [pattern |-> [kind |-> "suffix", lit |-> <<46, 116, 120, 116>>], score |-> 0 - 5]
RuleEmpty == [pattern |-> [kind |-> "empty", lit |-> <<>>], score |-> 3]

\* ignore patterns: "^b", and "[$", which does not compile
IgnoreB   == [kind |-> "prefix", lit |-> <<98>>]
IgnoreBad == [kind |-> "invalid", lit |-> <<91, 36>>]

\* user binary extensions: ".DAT", "DAT", "dat", ".dat"
DotUpperDat == <<46, 68, 65, 84>>
UpperDat    == <<68, 65, 84>>
LowerDat    == <<100, 97, 116>>
DotLowerDat == <<46, 100, 97, 116>>

\* a run's inputs: the three fields of config, the history, and env
BaseSetting ==
    [max_size |-> 20, token_mode |-> FALSE, rules |-> <<>>, history |-> NoHistory,
     env |-> PlainEnv]

StreamSettings ==
    { [BaseSetting EXCEPT !.max_size = size,
                          !.env = [PlainEnv EXCEPT !.stream = s, !.output_dir = d,
                                                   !.second = r]] :
        size \in {3, 20}, s \in BOOLEAN, d \in { <<>>, <<"out">> },
        r \in {"same", "streaming"} }

RuleSettings ==
    { [BaseSetting EXCEPT !.rules = rs, !.history = h,
                          !.env = [PlainEnv EXCEPT !.ignore_patterns = ps]] :
        rs \in { <<RuleHuge>>, <<RuleBelow, RuleRs>>, <<RuleEmpty>>, <<RuleBad>>,
                 <<RuleSrc, RuleRs>> },
        h  \in { NoHistory, HistoryTie },
        ps \in { <<>>, <<IgnoreBad>>, <<IgnoreBad, IgnoreB>> } }

FaultSettings ==
    { [BaseSetting EXCEPT !.env = [PlainEnv EXCEPT !.gitignore = g, !.unreadable = u,
                                                   !.walk_errors = w,
                                                   !.binary_extensions = b]] :
        g \in {"none", "malformed"},
        u \in { {}, {PathA}, {PathDat} },
        w \in { {}, {PathSub} },
        b \in { <<>>, <<DotUpperDat>>, <<LowerDat>> } }

HistorySettings ==
    { [BaseSetting EXCEPT !.history = h, !.token_mode = m] :
        h \in { HistoryThree, HistoryTie, HistoryOne }, m \in BOOLEAN }

ZeroSettings ==
    { [BaseSetting EXCEPT !.max_size = 0, !.token_mode = m,
                          !.env = [PlainEnv EXCEPT !.stream = s]] :
        m \in BOOLEAN, s \in BOOLEAN }

Settings ==
    StreamSettings \cup RuleSettings \cup FaultSettings \cup HistorySettings
    \cup ZeroSettings

----------------------------------------------------------------------------
(* The state of a run of serialize_repo *)

VARIABLES
    repo,        \* the files of the tree under repo_path
    config,      \* the YekConfig: max_size, token_mode, priority_rules
    git_times,   \* what get_recent_commit_times returned
    hash_order,  \* the iteration order of the git_times map in this run
    run,         \* 1 for the first run over the inputs, 2 for the re-run
    pc,          \* where the run stands: "validate", "filters", "walk",
                 \* "write", "split", "done" (Ok returned), "failed" (Err)
    visited,     \* the files the walk has yielded so far
    entries,     \* serialize_repo's entries, then write_chunks' entries
    cursor,      \* write_chunks: the position of the for loop in entries
    chunk_idx,   \* write_chunks: chunk_idx
    buffer,      \* write_chunks: buffer, as the fragments pushed to it
    used_size,   \* write_chunks: used_size
    start,       \* the forced-split loop: start
    part,        \* the forced-split loop: part
    out,         \* the calls of write_single_chunk so far, in order
    prev_out,    \* the calls of write_single_chunk of the first run
    call,        \* a direct call of a function of the priority engine
    ret,         \* what the direct call returned: None until it has
    env,         \* the rest of the YekConfig, and what the run meets on disk
    diagnostics, \* the errors validate_config returned to this run
    dirs,        \* the directories there are under the output location
    made,        \* the directories this run has created
    rank_computations  \* the calls of compute_recentness_boost of this run

vars == <<repo, config, git_times, hash_order, run, pc, visited, entries,
          cursor, chunk_idx, buffer, used_size, start, part, out, prev_out,
          call, ret, env, diagnostics, dirs, made, rank_computations>>

inputs == <<repo, config, git_times, call, ret>>

----------------------------------------------------------------------------
(* serialize_repo: the walk and the sort *)

\* the state at the start of a run over the given inputs
StartRun ==
    /\ pc = "validate"
    /\ diagnostics = <<>>
    /\ made = {}
    /\ rank_computations = 0
    /\ visited = {}
    /\ entries = <<>>
    /\ cursor = 1
    /\ chunk_idx = 0
    /\ buffer = <<>>
    /\ used_size = 0
    /\ start = 0
    /\ part = 0
    /\ out = <<>>

Init ==
    /\ repo \in Trees
    /\ \E p \in PriorityInputs, size \in Thresholds, mode \in BOOLEAN :
          /\ config = [max_size |-> size, token_mode |-> mode,
                       priority_rules |-> p.rules]
          /\ git_times = p.history
    /\ hash_order \in IterOrders(git_times)
    /\ run = 1
    /\ prev_out = <<>>
    /\ call = <<>>
    /\ ret = <<>>
    /\ env = PlainEnv
    /\ dirs = {}
    /\ StartRun

\* lines 481-489 of serialize_repo: validate_config is called, its errors
\* are printed and the run goes on; validate_config creates the directory
\* of output_dir when one is set
Validate ==
    /\ pc = "validate"
    /\ diagnostics' = validate_config(config, env.ignore_patterns)
    /\ dirs' = dirs \cup { env.output_dir[i] : i \in 1..Len(env.output_dir) }
    /\ made' = made \cup ({ env.output_dir[i] : i \in 1..Len(env.output_dir) } \ dirs)
    /\ pc' = "filters"
    /\ UNCHANGED <<repo, config, git_times, hash_order, run, visited, entries,
                   cursor, chunk_idx, buffer, used_size, start, part, out,
                   prev_out, call, ret, env, rank_computations>>

\* config.ignore_patterns.iter().filter_map(..): the ignore patterns that
\* compile; a pattern is a regex already (it starts with ^ or ends with $)
IgnoreRegexes == SelectSeq(env.ignore_patterns, RegexCompiles)

\* the filter_entry of the walk skips the path
IsIgnored(path) ==
    \E i \in 1..Len(IgnoreRegexes) : is_match(IgnoreRegexes[i], path)

\* lines 494-520: the Gitignore is built from .gitignore, the result of
\* gi_builder.add is dropped (let _ =) and a builder that took no glob of a
\* malformed line builds; the ignore regexes are compiled; the history is
\* fetched
BuildFilters ==
    /\ pc = "filters"
    /\ pc' = "walk"
    /\ UNCHANGED <<repo, config, git_times, hash_order, run, visited, entries,
                   cursor, chunk_idx, buffer, used_size, start, part, out,
                   prev_out, call, ret, env, diagnostics, dirs, made,
                   rank_computations>>

\* what the walk yields: the files filter_entry lets through, and an Err
\* for each directory that cannot be listed
WalkItems ==
    { f \in repo : ~IsIgnored(f.path) }
    \cup { [path |-> d, bytes |-> <<>>] : d \in env.walk_errors }

\* the priority serialize_repo gives a path: the pattern score, plus the
\* recentness boost when the history is there and holds the path
FilePriority(rel_path) ==
    LET priority == get_file_priority(rel_path, config.priority_rules)
    IN  IF git_times # <<>> /\ rel_path \in DOMAIN git_times[1]
        THEN priority
             + compute_recentness_boost(hash_order, git_times[1], MaxBoost)[rel_path]
        ELSE priority

\* one turn of the loop over the walk. The walker yields f: an Err
\* (`entry?` returns it), or a file; is_text_file is asked, its Err
\* returned (`?`) and a binary file skipped; the bytes are read (`?`) and
\* decoded, the priority computed, with one compute_recentness_boost when
\* the history holds the path, and the triple pushed. A file that cannot be
\* opened cannot be read: fs::read fails for no file is_text_file opened.
Walk(f) ==
    /\ pc = "walk"
    /\ f \in WalkItems \ visited
    /\ visited' = visited \cup {f}
    /\ LET readable == f.path \notin env.unreadable
           text     == is_text_file(f.path, f.bytes, readable, env.binary_extensions)
           boosted  == git_times # <<>> /\ f.path \in DOMAIN git_times[1]
       IN  IF f.path \in env.walk_errors \/ text.result = "err"
           THEN /\ pc' = "failed"
                /\ UNCHANGED <<entries, rank_computations>>
           ELSE IF text.result = "binary"
           THEN UNCHANGED <<pc, entries, rank_computations>>
           ELSE /\ entries' = Append(entries,
                                     [path     |-> f.path,
                                      content  |-> from_utf8_lossy(f.bytes),
                                      priority |-> FilePriority(f.path)])
                /\ rank_computations' =
                      IF boosted THEN rank_computations + 1 ELSE rank_computations
                /\ UNCHANGED pc
    /\ UNCHANGED <<repo, config, git_times, hash_order, run, cursor,
                   chunk_idx, buffer, used_size, start, part, out, prev_out,
                   call, ret, env, diagnostics, dirs, made>>

\* a.2.cmp(&b.2).then_with(|| a.0.cmp(&b.0)) is Less
EntryLess(a, b) ==
    \/ a.priority < b.priority
    \/ a.priority = b.priority /\ BytesLess(a.path, b.path)

\* a sort that leaves the entries in the order the walk pushed them
SortEntriesNot(es) == es

\* entries.sort_by(..): a stable sort, here by insertion of the last entry
RECURSIVE SortEntries(_)
SortEntries(es) ==
    IF es = <<>> THEN <<>>
    ELSE LET n      == Len(es)
             front  == SortEntries(SubSeq(es, 1, n - 1))
             e      == es[n]
             before == SelectSeq(front, LAMBDA x : ~EntryLess(e, x))
             after  == SelectSeq(front, LAMBDA x : EntryLess(e, x))
         IN  before \o <<e>> \o after

\* the directory name serialize_repo joins to repo_path by default
DefaultOutputDir == "yek-output"

\* config.output_dir after lines 595-597
OutputDir ==
    IF ~env.stream /\ env.output_dir = <<>> THEN <<DefaultOutputDir>> ELSE env.output_dir

\* the walk is over: the entries are sorted, the output directory is
\* created when the run writes files and it is not there, and write_chunks
\* is entered
Sort ==
    /\ pc = "walk"
    /\ visited = WalkItems
    /\ entries' = SortEntries(entries)
    /\ dirs' = IF env.stream THEN dirs ELSE dirs \cup {OutputDir[1]}
    /\ made' = IF env.stream THEN made ELSE made \cup ({OutputDir[1]} \ dirs)
    /\ pc' = "write"
    /\ UNCHANGED <<repo, config, git_times, hash_order, run, visited, cursor,
                   chunk_idx, buffer, used_size, start, part, out, prev_out,
                   call, ret, env, diagnostics, rank_computations>>

----------------------------------------------------------------------------
(* write_single_chunk and write_chunks *)

\* the name of the file write_single_chunk writes in the output directory
FileName(index, part_index) ==
    IF part_index = <<>>
    THEN "chunk-" \o ToString(index) \o ".txt"
    ELSE "chunk-" \o ToString(index) \o "-part-" \o ToString(part_index[1]) \o ".txt"

\* a call write_single_chunk(content, index, part_index, ..): content is
\* kept as its fragments, each standing for the text
\*   "chunk <chunk>\n>>>> <path>\n<content>\n"              (part = None)
\*   "chunk <chunk>\n>>>> <path>:part <part>\n<content>\n"  (part = Some)
\* A fragment also records, as taken, the bytes or tokens of the file it
\* was built from.
\* is_stream tells where the content went: to stdout, or to the file
\* file_name of the output directory.
WriteSingleChunk(content, index, part_index) ==
    [content |-> content, index |-> index, part_index |-> part_index,
     file_name |-> FileName(index, part_index), is_stream |-> env.stream]

\* the per-file header overhead of the buffered branch
Overhead == 10

chunk_size == config.max_size

\* file_tokens in token mode, file_len in byte mode
FileSize(content) ==
    IF config.token_mode THEN Len(split_whitespace(content)) ELSE Len(content)

\* a split test that leaves out the file of exactly the threshold's size
IsOversizedExclusive(size) == size > chunk_size

\* `file_tokens >= chunk_size`, `file_len >= chunk_size`: the file is split
IsOversized(size) == size >= chunk_size

\* an add_size that leaves the header overhead out
AddSizeBare(size, rel_path) == size

\* overhead = 10 + rel_path.len(); add_size = file_len + overhead
AddSize(size, rel_path) == size + (Overhead + Len(rel_path))

\* the buffered branch's flush: the buffer is written when the file would
\* not fit and the buffer holds something
NeedsFlush(add_size) == used_size + add_size > chunk_size /\ buffer # <<>>

\* a chunk index that is not advanced after a write
StaleChunkIdx == chunk_idx

\* chunk_idx += 1, after each call of write_single_chunk but the last
NextChunkIdx == chunk_idx + 1

\* end = (start + chunk_size).min(file_len)
SplitEnd(size) == Min(start + chunk_size, size)

\* the body of the for loop of write_chunks for entries[cursor], up to the
\* forced-split loop
WriteEntry ==
    /\ pc = "write"
    /\ cursor <= Len(entries)
    /\ LET rel_path == entries[cursor].path
           content  == entries[cursor].content
           size     == FileSize(content)
       IN  IF IsOversized(size)
           THEN \* forced split: flush the buffer first, then enter the loop
                /\ IF buffer # <<>>
                   THEN /\ out' = Append(out, WriteSingleChunk(buffer, chunk_idx, <<>>))
                        /\ chunk_idx' = NextChunkIdx
                   ELSE UNCHANGED <<out, chunk_idx>>
                /\ buffer' = <<>>
                /\ used_size' = IF buffer # <<>> THEN 0 ELSE used_size
                /\ start' = 0
                /\ part' = 0
                /\ pc' = "split"
                /\ UNCHANGED cursor
           ELSE \* small enough: flush when it does not fit, then push
                LET add_size == AddSize(size, rel_path)
                    flush    == NeedsFlush(add_size)
                    idx      == IF flush THEN NextChunkIdx ELSE chunk_idx
                IN  /\ out' = IF flush
                              THEN Append(out, WriteSingleChunk(buffer, chunk_idx, <<>>))
                              ELSE out
                    /\ chunk_idx' = idx
                    /\ buffer' = Append(IF flush THEN <<>> ELSE buffer,
                                        [chunk |-> idx, path |-> rel_path,
                                         part |-> <<>>, content |-> content,
                                         taken |-> size])
                    /\ used_size' = (IF flush THEN 0 ELSE used_size) + add_size
                    /\ cursor' = cursor + 1
                    /\ UNCHANGED <<start, part, pc>>
    /\ UNCHANGED <<repo, config, git_times, hash_order, run, visited, entries,
                   prev_out, call, ret, env, diagnostics, dirs, made,
                   rank_computations>>

\* the text of one part: the tokens start..end-1 joined by a space in token
\* mode, the lossy decoding of the bytes start..end-1 in byte mode
PartText(content, from, to) ==
    IF config.token_mode
    THEN JoinSpace(SubSeq(split_whitespace(content), from + 1, to))
    ELSE from_utf8_lossy(SubSeq(content, from + 1, to))

\* the turns of the forced-split loop that write an empty part which are
\* followed: the loop that does not advance is cut off there
MaxEmptyParts == 3

\* one test of `while start < file_len` (or file_tokens) and, when it
\* holds, one turn of the forced-split loop
SplitStep ==
    /\ pc = "split"
    /\ chunk_size > 0 \/ part < MaxEmptyParts
    /\ LET rel_path == entries[cursor].path
           content  == entries[cursor].content
           size     == FileSize(content)
           end      == SplitEnd(size)
       IN  IF start < size
           THEN /\ out' = Append(out,
                     WriteSingleChunk(<<[chunk |-> chunk_idx, path |-> rel_path,
                                         part |-> <<part>>,
                                         content |-> PartText(content, start, end),
                                         taken |-> end - start]>>,
                                      chunk_idx, <<part>>))
                /\ chunk_idx' = NextChunkIdx
                /\ part' = part + 1
                /\ start' = end
                /\ UNCHANGED <<pc, cursor>>
           ELSE /\ pc' = "write"
                /\ cursor' = cursor + 1
                /\ UNCHANGED <<out, chunk_idx, part, start>>
    /\ UNCHANGED <<repo, config, git_times, hash_order, run, visited, entries,
                   buffer, used_size, prev_out, call, ret, env, diagnostics,
                   dirs, made, rank_computations>>

\* after the for loop: the final flush, and serialize_repo returns Ok
Finish ==
    /\ pc = "write"
    /\ cursor > Len(entries)
    /\ out' = IF buffer # <<>>
              THEN Append(out, WriteSingleChunk(buffer, chunk_idx, <<>>))
              ELSE out
    /\ pc' = "done"
    /\ UNCHANGED <<repo, config, git_times, hash_order, run, visited, entries,
                   cursor, chunk_idx, buffer, used_size, start, part, prev_out,
                   call, ret, env, diagnostics, dirs, made, rank_computations>>

\* serialize_repo is run again on the same tree, configuration and history;
\* the new process builds its own map of the history. When the second run
\* is the streaming one, config.stream is set and the run is given the
\* entries of the first (the iteration order of the map is kept).
Rerun ==
    /\ pc = "done"
    /\ run = 1
    /\ run' = 2
    /\ prev_out' = out
    /\ IF env.second = "streaming"
       THEN /\ env' = [env EXCEPT !.stream = TRUE]
            /\ hash_order' = hash_order
       ELSE /\ env' = env
            /\ hash_order' \in IterOrders(git_times)
    /\ pc' = "validate"
    /\ diagnostics' = <<>>
    /\ made' = {}
    /\ rank_computations' = 0
    /\ dirs' = dirs
    /\ visited' = {}
    /\ entries' = <<>>
    /\ cursor' = 1
    /\ chunk_idx' = 0
    /\ buffer' = <<>>
    /\ used_size' = 0
    /\ start' = 0
    /\ part' = 0
    /\ out' = <<>>
    /\ UNCHANGED inputs

Next ==
    \/ Validate
    \/ BuildFilters
    \/ \E f \in WalkUniverse : Walk(f)
    \/ Sort
    \/ WriteEntry
    \/ SplitStep
    \/ Finish
    \/ Rerun

Spec == Init /\ [][Next]_vars

\* runs over the inputs that meet diagnostics, faults and streaming
EnvInit ==
    /\ repo \in EnvTrees
    /\ \E t \in Settings :
          /\ config = [max_size |-> t.max_size, token_mode |-> t.token_mode,
                       priority_rules |-> t.rules]
          /\ git_times = t.history
          /\ env = t.env
    /\ hash_order \in IterOrders(git_times)
    /\ run = 1
    /\ prev_out = <<>>
    /\ call = <<>>
    /\ ret = <<>>
    /\ dirs = {}
    /\ StartRun

EnvSpec == EnvInit /\ [][Next]_vars

----------------------------------------------------------------------------
(* Direct calls of the priority engine's functions *)

\* the largest number of rules in a rule list of a direct call
MaxRules == 3
\* the largest number of files in the history of a direct call
MaxHistory == 3

RuleTxt == [pattern |-> [kind |-> "suffix", lit |-> <<46, 116, 120, 116>>], score |-> 10]
RuleNeg == [pattern |-> [kind |-> "prefix", lit |-> <<97>>], score |-> 0 - 5]

RuleUniverse == {RuleRs, RuleSrc, RuleB, RuleBad, RuleTxt, RuleNeg}

Paths == { f.path : f \in FileUniverse }

RuleLists == UNION { [1..n -> RuleUniverse] : n \in 0..MaxRules }

CommitTimes == {100, 200, 300}

CommitMaps ==
    UNION { [S -> CommitTimes] : S \in { T \in SUBSET Paths : Cardinality(T) <= MaxHistory } }

Calls ==
    { [fn |-> "get_file_priority", path |-> p, rules |-> rs] :
        p \in Paths, rs \in RuleLists }
    \cup
    UNION { { [fn |-> "compute_recentness_boost", commit_times |-> m,
               iter |-> o, max_boost |-> b] : o \in Orders(DOMAIN m), b \in {MaxBoost, 7} }
            : m \in CommitMaps }
    \cup
    { [fn |-> "is_text_file", path |-> f.path, bytes |-> f.bytes, readable |-> r,
       user_binary_extensions |-> u] :
        f \in WalkUniverse, r \in BOOLEAN,
        u \in { <<>>, <<DotUpperDat>>, <<UpperDat>>, <<LowerDat>>, <<DotLowerDat>>,
                <<UpperDat, LowerDat>> } }

CallInit ==
    /\ call \in Calls
    /\ ret = <<>>
    /\ pc = "call"
    /\ repo = {}
    /\ config = [max_size |-> 1, token_mode |-> FALSE, priority_rules |-> <<>>]
    /\ git_times = <<>>
    /\ hash_order = <<>>
    /\ run = 1
    /\ prev_out = <<>>
    /\ visited = {}
    /\ entries = <<>>
    /\ cursor = 1
    /\ chunk_idx = 0
    /\ buffer = <<>>
    /\ used_size = 0
    /\ start = 0
    /\ part = 0
    /\ out = <<>>
    /\ env = PlainEnv
    /\ diagnostics = <<>>
    /\ dirs = {}
    /\ made = {}
    /\ rank_computations = 0

CallGetFilePriority ==
    /\ pc = "call"
    /\ call.fn = "get_file_priority"
    /\ ret' = <<get_file_priority(call.path, call.rules)>>
    /\ pc' = "returned"
    /\ UNCHANGED <<repo, config, git_times, hash_order, run, visited, entries,
                   cursor, chunk_idx, buffer, used_size, start, part, out,
                   prev_out, call, env, diagnostics, dirs, made,
                   rank_computations>>

CallComputeRecentnessBoost ==
    /\ pc = "call"
    /\ call.fn = "compute_recentness_boost"
    /\ ret' = <<compute_recentness_boost(call.iter, call.commit_times, call.max_boost)>>
    /\ pc' = "returned"
    /\ UNCHANGED <<repo, config, git_times, hash_order, run, visited, entries,
                   cursor, chunk_idx, buffer, used_size, start, part, out,
                   prev_out, call, env, diagnostics, dirs, made,
                   rank_computations>>

CallIsTextFile ==
    /\ pc = "call"
    /\ call.fn = "is_text_file"
    /\ ret' = <<is_text_file(call.path, call.bytes, call.readable,
                             call.user_binary_extensions)>>
    /\ pc' = "returned"
    /\ UNCHANGED <<repo, config, git_times, hash_order, run, visited, entries,
                   cursor, chunk_idx, buffer, used_size, start, part, out,
                   prev_out, call, env, diagnostics, dirs, made,
                   rank_computations>>

CallNext == CallGetFilePriority \/ CallComputeRecentnessBoost \/ CallIsTextFile

CallSpec == CallInit /\ [][CallNext]_vars

----------------------------------------------------------------------------
(* What a run has written *)

Done == pc = "done"

\* the fragments of every chunk written so far, in the order written
Written == Flatten([i \in 1..Len(out) |-> out[i].content])

\* the fragments of the path, in the order written
FragmentsOf(path) == SelectSeq(Written, LAMBDA fr : fr.path = path)

\* the decoded content of a file of the tree
ContentOf(f) == from_utf8_lossy(f.bytes)

\* the size write_chunks measures a file of the tree by
SizeOf(f) ==
    IF config.token_mode THEN Len(split_whitespace(ContentOf(f))) ELSE Len(ContentOf(f))

RECURSIVE Sum(_)
Sum(xs) == IF xs = <<>> THEN 0 ELSE Head(xs) + Sum(Tail(xs))

----------------------------------------------------------------------------
(* C1 *)

\* C1: the chunk indices write_chunks emits, whole-file chunks and split
\* parts together, are 0, 1, 2, ... in the order emitted: the first chunk
\* written has index 0 and each later one the index of its predecessor
\* plus one.
C1_ContiguousIndices ==
    \A i \in 1..Len(out) : out[i].index = i - 1

\* a finished run that wrote a whole-file chunk, then the parts of a split
\* file, then a whole-file chunk again
C1_Witness ==
    /\ Done
    /\ \E i, j, k \in 1..Len(out) :
          /\ i < j /\ j + 1 < k
          /\ out[i].part_index = <<>>
          /\ out[j].part_index = <<0>>
          /\ out[j + 1].part_index = <<1>>
          /\ out[k].part_index = <<>>

----------------------------------------------------------------------------
(* C5 *)

\* the priority the run gave the file with this path
PriorityOf(path) ==
    LET e == CHOOSE e \in { entries[i] : i \in 1..Len(entries) } : e.path = path
    IN  e.priority

\* (priority, path) of the first path is below that of the second
KeyLess(p, q) ==
    \/ PriorityOf(p) < PriorityOf(q)
    \/ PriorityOf(p) = PriorityOf(q) /\ BytesLess(p, q)

\* C5: files appear in the output in strictly ascending (priority, path)
\* order: of two fragments, the one written earlier belongs to the same
\* file as the later one or to a file with a smaller (priority, path), and
\* its chunk index is not greater; the parts of one file are written in
\* part order.
C5_AscendingOrder ==
    LET w == Written
    IN  \A i \in 1..Len(w) :
            \A j \in (i + 1)..Len(w) :
                /\ w[i].chunk <= w[j].chunk
                /\ IF w[i].path = w[j].path
                   THEN /\ w[i].part # <<>> /\ w[j].part # <<>>
                        /\ w[i].part[1] < w[j].part[1]
                   ELSE KeyLess(w[i].path, w[j].path)

\* a finished run over three files, two of which the priorities order
\* against their paths, and two of which share a chunk
C5_Witness ==
    /\ Done
    /\ Cardinality(repo) = 3
    /\ \E f, g \in visited :
          /\ KeyLess(f.path, g.path)
          /\ BytesLess(g.path, f.path)
    /\ \E i \in 1..Len(out) : Len(out[i].content) = 2

----------------------------------------------------------------------------
(* C6 *)

\* C6: every file whose size (bytes or tokens) is at least the threshold,
\* the file of exactly the threshold's size included, is force-split: the
\* buffer is empty while its parts are written, the file is emitted as
\* parts only, numbered 0, 1, .. in order, every part is cut from at most
\* `threshold` bytes or tokens of the file, and a chunk that holds a part
\* holds nothing else.
C6_ForcedSplit ==
    /\ pc = "split" => buffer = <<>> /\ used_size = 0
    /\ \A i \in 1..Len(out) :
          \A k \in 1..Len(out[i].content) :
              out[i].content[k].part # <<>> =>
                  /\ Len(out[i].content) = 1
                  /\ out[i].part_index = out[i].content[k].part
                  /\ out[i].content[k].taken <= chunk_size
                  /\ config.token_mode =>
                        Len(split_whitespace(out[i].content[k].content)) <= chunk_size
    /\ Done =>
          \A f \in repo :
              SizeOf(f) >= chunk_size =>
                  LET frs == FragmentsOf(f.path)
                  IN  /\ frs # <<>>
                      /\ \A k \in 1..Len(frs) : frs[k].part = <<k - 1>>
                      /\ Sum([k \in 1..Len(frs) |-> frs[k].taken]) = SizeOf(f)

\* a finished run in which a file of exactly the threshold's size came
\* after a buffered file: the buffer was written first, then the one part
C6_Witness ==
    /\ Done
    /\ \E f \in repo :
          /\ SizeOf(f) = chunk_size
          /\ \E i \in 2..Len(out) :
                /\ out[i].content[1].path = f.path
                /\ out[i].part_index = <<0>>
                /\ out[i - 1].part_index = <<>>

----------------------------------------------------------------------------
(* C2 *)

\* the aggregate size of a chunk: over its files, the bytes or tokens of
\* the file plus the header overhead of 10 + path length
AggregateSize(chunk) ==
    Sum([k \in 1..Len(chunk.content) |->
            chunk.content[k].taken + 10 + Len(chunk.content[k].path)])

\* C2: every emitted chunk that is not a part of a force-split file has an
\* aggregate size (content sizes plus per-file overhead of 10 + path
\* length) of at most the threshold.
C2_AggregateWithinThreshold ==
    \A i \in 1..Len(out) :
        out[i].part_index = <<>> => AggregateSize(out[i]) <= chunk_size

----------------------------------------------------------------------------
(* C3 *)

\* the text of the fragments of a path, one after the other
TextOf(path) ==
    LET frs == FragmentsOf(path)
    IN  Flatten([k \in 1..Len(frs) |-> frs[k].content])

\* the tokens of the fragments of a path, one fragment after the other
TokensOf(path) ==
    LET frs == FragmentsOf(path)
    IN  Flatten([k \in 1..Len(frs) |-> split_whitespace(frs[k].content)])

\* the path is written once: as one whole-file fragment, or as the parts
\* 0, 1, .. in order
WrittenOnce(path) ==
    LET frs == FragmentsOf(path)
    IN  /\ frs # <<>>
        /\ \/ Len(frs) = 1 /\ frs[1].part = <<>>
           \/ \A k \in 1..Len(frs) : frs[k].part = <<k - 1>>

\* C3: when a run with threshold >= 1 has finished, the content fragments
\* of the emitted chunks, in chunk order, hold every included file's
\* content exactly once: no file is missing, none is written twice, and the
\* fragments of a file in order rebuild it, byte for byte in byte mode and
\* token for token in token mode.
C3_Reassembly ==
    (Done /\ chunk_size >= 1) =>
        /\ \A k \in 1..Len(Written) : \E f \in repo : f.path = Written[k].path
        /\ \A f \in repo :
              /\ WrittenOnce(f.path)
              /\ IF config.token_mode
                 THEN TokensOf(f.path) = split_whitespace(ContentOf(f))
                 ELSE TextOf(f.path) = ContentOf(f)

----------------------------------------------------------------------------
(* C4 *)

\* C4: a second run of serialize_repo on the same tree, configuration and
\* history writes what the first run wrote: the same chunks under the same
\* names with the same bodies, whatever order the walk yields the files in
\* and whatever order the history map iterates in.
C4_SameOutputOnRerun ==
    (run = 2 /\ Done) => out = prev_out

----------------------------------------------------------------------------
(* C7 *)

\* the names of the files written, in the order written
FileNames == [i \in 1..Len(out) |-> out[i].file_name]

\* the paths a chunk holds, in order
PathsIn(chunk) == [k \in 1..Len(chunk.content) |-> chunk.content[k].path]

\* byte mode, threshold 20, a.txt = "hello" with priority 0 and
\* b.txt = "world!!" with priority 1
TwoSmallFiles ==
    /\ repo = { [path |-> PathA, bytes |-> Hello], [path |-> PathB, bytes |-> World] }
    /\ config = [max_size |-> 20, token_mode |-> FALSE, priority_rules |-> <<RuleB>>]
    /\ git_times = NoHistory

\* C7, as claimed: in byte mode with threshold 20, a.txt = "hello"
\* (priority 0) and b.txt = "world!!" (priority 1) are packed into exactly
\* one chunk, chunk-0.txt, holding a.txt then b.txt.
C7_OneChunk ==
    (TwoSmallFiles /\ Done) =>
        /\ FileNames = <<"chunk-0.txt">>
        /\ PathsIn(out[1]) = <<PathA, PathB>>

\* C7, amended: the run writes two chunks, chunk-0.txt holding a.txt alone
\* (accounted 5 + 10 + 5 = 20) and chunk-1.txt holding b.txt alone
\* (accounted 7 + 10 + 5 = 22), and the entries carry priorities 0 and 1.
C7_TwoChunks ==
    (TwoSmallFiles /\ Done) =>
        /\ FileNames = <<"chunk-0.txt", "chunk-1.txt">>
        /\ PathsIn(out[1]) = <<PathA>>
        /\ PathsIn(out[2]) = <<PathB>>
        /\ out[1].content[1].content = Hello
        /\ out[2].content[1].content = World
        /\ AggregateSize(out[1]) = 20
        /\ AggregateSize(out[2]) = 22
        /\ [i \in 1..2 |-> entries[i].priority] = <<0, 1>>

\* the first run over a.txt and b.txt has finished with two writes
C7_Witness ==
    /\ TwoSmallFiles
    /\ Done
    /\ run = 1
    /\ Len(out) = 2

----------------------------------------------------------------------------
(* C8 *)

\* byte mode, threshold 20, a single file of 25 bytes
OneLargeFile ==
    /\ repo = { [path |-> PathC, bytes |-> Bytes25] }
    /\ ~config.token_mode
    /\ chunk_size = 20

\* C8, as claimed: in byte mode with threshold 20, a single file of 25
\* bytes gives exactly two output files, chunk-0-part-0.txt and
\* chunk-0-part-1.txt, each with at most 20 bytes of the file.
C8_PartsShareIndex ==
    (OneLargeFile /\ Done) =>
        /\ FileNames = <<"chunk-0-part-0.txt", "chunk-0-part-1.txt">>
        /\ \A i \in 1..Len(out) : out[i].content[1].taken <= 20

\* C8, amended: the two output files are chunk-0-part-0.txt and
\* chunk-1-part-1.txt (the chunk index advances with every part); the
\* first holds the first 20 bytes of the file, the second the last 5.
C8_PartsAdvanceIndex ==
    (OneLargeFile /\ Done) =>
        /\ FileNames = <<"chunk-0-part-0.txt", "chunk-1-part-1.txt">>
        /\ \A i \in 1..Len(out) :
              /\ Len(out[i].content) = 1
              /\ out[i].content[1].taken <= 20
              /\ Len(out[i].content[1].content) <= 20
        /\ out[1].content[1].content = SubSeq(Bytes25, 1, 20)
        /\ out[2].content[1].content = SubSeq(Bytes25, 21, 25)

\* the run over the 25-byte file has finished with two writes
C8_Witness ==
    /\ OneLargeFile
    /\ Done
    /\ Len(out) = 2
    /\ out[2].part_index = <<1>>

----------------------------------------------------------------------------
(* C9 *)

Returned(fn) == pc = "returned" /\ call.fn = fn

\* the rule's pattern is a regex that matches the path
RuleMatches(rule, path) == RegexCompiles(rule.pattern) /\ is_match(rule.pattern, path)

\* the rule list in every order
Permuted(rules) ==
    { [i \in 1..Len(rules) |-> rules[o[i]]] : o \in Orders(1..Len(rules)) }

\* C9: get_file_priority returns the maximum score among the rules whose
\* pattern matches the path, and 0 when no rule matches; every permutation
\* of the rule list gives the same result.
C9_MaxOfMatching ==
    Returned("get_file_priority") =>
        LET matching == { i \in 1..Len(call.rules) : RuleMatches(call.rules[i], call.path) }
        IN  /\ matching = {} => ret[1] = 0
            /\ matching # {} =>
                  /\ \E i \in matching : ret[1] = call.rules[i].score
                  /\ \A i \in matching : ret[1] >= call.rules[i].score
            /\ \A rs \in Permuted(call.rules) :
                  get_file_priority(call.path, rs) = ret[1]

\* get_file_priority has returned 10 for src/lib.rs under the rules
\* [(".*\.rs$", 10), ("^src/", 5)], and 10 again with the rules swapped
C9_Witness ==
    /\ Returned("get_file_priority")
    /\ call.path = PathLib
    /\ call.rules \in {<<RuleRs, RuleSrc>>, <<RuleSrc, RuleRs>>}
    /\ ret = <<10>>

----------------------------------------------------------------------------
(* C10 *)

\* r is num/den rounded to the nearest integer, halves upwards
IsNearest(r, num, den) ==
    /\ 2 * r * den - den <= 2 * num
    /\ 2 * num < 2 * r * den + den

\* the rankings of the files by ascending commit time: the bijections from
\* the files to 0..n-1 under which an older file has the lower rank
Rankings(times) ==
    LET n == Cardinality(DOMAIN times)
    IN  { rank \in [DOMAIN times -> 0..(n - 1)] :
            /\ \A p, q \in DOMAIN times : p # q => rank[p] # rank[q]
            /\ \A p, q \in DOMAIN times : times[p] < times[q] => rank[p] < rank[q] }

\* C10: compute_recentness_boost gives the file at ascending-timestamp rank
\* i among n >= 2 historical files the boost round(i / (n - 1) * max_boost),
\* so a file older than all others gets 0 and one newer than all others
\* max_boost; with 0 or 1 historical files every boost is 0; every boost
\* lies in 0..max_boost.
C10_RankBoost ==
    Returned("compute_recentness_boost") =>
        LET times == call.commit_times
            n     == Cardinality(DOMAIN times)
            boost == ret[1]
        IN  /\ DOMAIN boost = DOMAIN times
            /\ \A p \in DOMAIN times : boost[p] >= 0 /\ boost[p] <= call.max_boost
            /\ n <= 1 => \A p \in DOMAIN times : boost[p] = 0
            /\ n >= 2 =>
                  /\ \E rank \in Rankings(times) :
                        \A p \in DOMAIN times :
                            IsNearest(boost[p], rank[p] * call.max_boost, n - 1)
                  /\ \A p \in DOMAIN times :
                        /\ (\A q \in DOMAIN times \ {p} : times[p] < times[q])
                              => boost[p] = 0
                        /\ (\A q \in DOMAIN times \ {p} : times[q] < times[p])
                              => boost[p] = call.max_boost

\* compute_recentness_boost has returned 0, 25 and 50 for three files
\* committed one after the other, under max_boost 50
C10_Witness ==
    /\ Returned("compute_recentness_boost")
    /\ call.commit_times = HistoryThree[1]
    /\ call.max_boost = 50
    /\ ret[1][PathA] = 0
    /\ ret[1][PathB] = 25
    /\ ret[1][PathLib] = 50

----------------------------------------------------------------------------
(* C11 *)

\* what the calls of write_single_chunk sent to stdout, in order
StdoutOf(calls) ==
    Flatten([i \in 1..Len(calls) |->
                IF calls[i].is_stream THEN calls[i].content ELSE <<>>])

\* the bodies of the files the calls wrote, in chunk-index order
FileBodiesOf(calls) ==
    LET written == SelectSeq(calls, LAMBDA c : ~c.is_stream)
        at(k)   == CHOOSE i \in 1..Len(written) :
                      /\ written[i].index = k
                      /\ \A j \in 1..Len(written) : written[j].index = k => j <= i
    IN  Flatten([k \in 1..Len(written) |-> written[at(k - 1)].content])

\* the second run is the streaming run of a first run that wrote files
StreamedAfterFiles ==
    /\ run = 2
    /\ env.second = "streaming"
    /\ env.stream
    /\ \A i \in 1..Len(prev_out) : ~prev_out[i].is_stream

\* the streaming run writes what the run to files wrote
StreamEqualsFiles ==
    (Done /\ StreamedAfterFiles) => StdoutOf(out) = FileBodiesOf(prev_out)

\* C11: a streaming run writes to stdout exactly the concatenation, in
\* chunk-index order, of the bodies of the files the non-streaming run over
\* the same entries and configuration writes; and a streaming run, its
\* validation included, creates no directory and writes no file, also when
\* output_dir is set.
C11_StreamingNoSideEffects ==
    /\ StreamEqualsFiles
    /\ env.stream => /\ made = {}
                     /\ \A i \in 1..Len(out) : out[i].is_stream

----------------------------------------------------------------------------
(* C12 *)

\* validate_config reported the i-th priority rule
IsReportedRule(i) ==
    \E k \in 1..Len(diagnostics) :
        diagnostics[k].field = "priority_rules" /\ diagnostics[k].index = i

\* validate_config reported the i-th ignore pattern
IsReportedIgnore(i) ==
    \E k \in 1..Len(diagnostics) :
        diagnostics[k].field = "ignore_patterns" /\ diagnostics[k].index = i

\* the priority rules validate_config reported nothing for, in rule order
RECURSIVE SoundRules(_)
SoundRules(i) ==
    IF i > Len(config.priority_rules) THEN <<>>
    ELSE (IF IsReportedRule(i) THEN <<>> ELSE <<config.priority_rules[i]>>)
         \o SoundRules(i + 1)

\* the recentness boost of the run for the path, 0 without one
BoostOf(path) ==
    IF git_times # <<>> /\ path \in DOMAIN git_times[1]
    THEN compute_recentness_boost(hash_order, git_times[1], MaxBoost)[path]
    ELSE 0

\* C12: when validate_config reports a priority rule (score outside
\* 0..1000, empty pattern, pattern that does not compile) or an ignore
\* pattern, the run goes on and the reported rule or pattern matches no
\* path: the priority of every entry is the one the unreported rules give,
\* and every file the walk leaves out is matched by an unreported ignore
\* pattern.
C12_ReportedNeverMatches ==
    pc # "validate" =>
        /\ \A i \in 1..Len(entries) :
              entries[i].priority =
                  get_file_priority(entries[i].path, SoundRules(1)) + BoostOf(entries[i].path)
        /\ \A f \in repo \ WalkItems :
              \E i \in 1..Len(env.ignore_patterns) :
                  ~IsReportedIgnore(i) /\ is_match(env.ignore_patterns[i], f.path)

----------------------------------------------------------------------------
(* C13 *)

\* C13: when the .gitignore of the root is malformed, the run fails with
\* an Err before an entry is walked, a file read or a chunk written: it
\* never stands in the walk, in write_chunks or at a successful end.
C13_MalformedIgnoreFails ==
    env.gitignore = "malformed" =>
        /\ pc \in {"validate", "filters", "failed"}
        /\ visited = {}
        /\ out = <<>>

----------------------------------------------------------------------------
(* C14 *)

\* the files of the tree a run should write: not ignored, readable, text
Eligible ==
    { f \in repo :
        /\ ~IsIgnored(f.path)
        /\ f.path \notin env.unreadable
        /\ is_text_file(f.path, f.bytes, TRUE, env.binary_extensions).result = "text" }

\* C14: a failure of one entry (a directory that cannot be listed, a file
\* that cannot be opened or read) skips that entry only: the run does not
\* fail, and at its end every other eligible file is among the entries
\* written.
C14_EntryFailureSkipped ==
    env.gitignore = "none" =>
        /\ pc # "failed"
        /\ Done => \A f \in Eligible : FragmentsOf(f.path) # <<>> \/ f.bytes = <<>>

----------------------------------------------------------------------------
(* C15 *)

\* the entry of the user list with one leading dot, if any, taken off
WithoutDot(e) == IF e # <<>> /\ Head(e) = Dot THEN Tail(e) ELSE e

\* the extension of the path equals, letter case ignored on both sides, a
\* member of the built-in set or an entry of the user list
ListedIgnoringCase(path, user_binary_extensions) ==
    LET ext == Extension(path)
    IN  /\ ext # <<>>
        /\ \/ \E b \in BINARY_FILE_EXTENSIONS : ToLowercase(b) = ToLowercase(ext[1])
           \/ \E i \in 1..Len(user_binary_extensions) :
                 ToLowercase(WithoutDot(user_binary_extensions[i])) = ToLowercase(ext[1])

\* C15: is_text_file answers binary, without opening the file, whenever
\* the extension of the path equals, ignoring letter case on both sides
\* and a leading dot of the list entry, a member of the built-in set or an
\* entry of the user list.
C15_ExtensionIgnoringCase ==
    (Returned("is_text_file")
       /\ ListedIgnoringCase(call.path, call.user_binary_extensions))
    => ret[1] = [result |-> "binary", opened |-> FALSE]

----------------------------------------------------------------------------
(* C16 *)

\* C16: the rank table of the history is computed once per run, however
\* many files the walk yields: compute_recentness_boost is never called a
\* second time, and a finished run that boosted an entry called it once.
C16_RankTableOnce ==
    git_times # <<>> =>
        /\ rank_computations <= 1
        /\ (Done /\ \E i \in 1..Len(entries) : entries[i].path \in DOMAIN git_times[1])
              => rank_computations = 1

----------------------------------------------------------------------------
(* C17 *)

\* C17: write_chunks terminates for every entry list and every threshold
\* the run goes on with, max_size = 0 among them, in both modes: every
\* turn of the forced-split loop advances start, so the loop reaches the
\* end of the file.
C17_SplitAdvances ==
    [][(pc = "split" /\ pc' = "split") => start' > start]_vars

====
